---- MODULE Spec2Model ----
(***************************************************************************)
(* Model of bucket_connector/connector.go: the prefix deletion workflow    *)
(* (DeleteFileWithPrefix), the single-key deletion (DeleteFile) and one    *)
(* concurrent upload (WriteAsFile), running against one bucket of the      *)
(* storage backend.  Keys, prefixes and error texts are sequences of       *)
(* characters, so that prefix matching and strings.Contains are computed   *)
(* as the code and the backend compute them.                               *)
(***************************************************************************)
EXTENDS Integers, Sequences, FiniteSets, TLC

VARIABLES
    bucket,      \* the set of object keys stored in the bucket
    wpc,         \* DeleteFileWithPrefix: position of the invocation
    filePath,    \* DeleteFileWithPrefix: the prefix argument
    firstPage,   \* paginator: no page has been requested yet
    nextToken,   \* paginator: continuation token of the last page
    page,        \* page.Contents of the page being processed
    idx,         \* position of the range loop in page.Contents
    inflight,    \* requests of the invocation the backend has not answered
    wresult,     \* DeleteFileWithPrefix: the returned error (Nil: success)
    wlog,        \* history: the requests issued and the answers received
    bucket0,     \* history: the bucket when the invocation started
    wremoved,    \* history: the keys the invocation's requests removed
    interfered,  \* history: another actor changed the bucket since the call
    cancelled,   \* the caller of DeleteFileWithPrefix has signalled cancel
    dpc,         \* DeleteFile: position of the invocation
    dkey,        \* DeleteFile: the key argument
    dresp,       \* DeleteFile: the backend's answer to the delete request
    dabsent,     \* history: the key was absent when the backend answered
    dreqs,       \* history: number of delete requests DeleteFile issued
    dresult,     \* DeleteFile: the returned error (Nil: success)
    upc,         \* WriteAsFile: position of the invocation
    ukey,        \* WriteAsFile: the key argument
    uresult,     \* WriteAsFile: the returned error (Nil: success)
    spc,         \* SaveFile: position of the invocation
    svariant,    \* SaveFile: which revision of SaveFile runs
    sreq,        \* SaveFile: the UploaderReq argument
    contentLength, \* SaveFile: the ContentLength of the PutObjectInput
    body,        \* SaveFile: the bytes the Body reader of the upload yields
    sresult      \* SaveFile: the returned error (Nil: success)

vars == <<bucket, wpc, filePath, firstPage, nextToken, page, idx, inflight,
          wresult, wlog, bucket0, wremoved, interfered, cancelled,
          dpc, dkey, dresp, dabsent, dreqs, dresult, upc, ukey, uresult,
          spc, svariant, sreq, contentLength, body, sresult>>

wvars == <<wpc, filePath, firstPage, nextToken, page, idx, inflight,
           wresult, wlog, bucket0, wremoved, cancelled>>
dvars == <<dpc, dkey, dresp, dabsent, dreqs, dresult>>
uvars == <<upc, ukey, uresult>>
svars == <<spc, svariant, sreq, contentLength, body, sresult>>

----------------------------------------------------------------------------
(* Bounds of the model *)

\* keys a listing request returns at most (MaxKeys of the backend)
PageSize == 2
\* characters of the RawData of an upload request at most
MaxRawLen == 8

----------------------------------------------------------------------------
(* Keys, prefixes, errors *)

\* "logs/", "logs/a", "logs/b", "images/c", shortened to one character
\* per path segment
Keys == { <<"l">>, <<"l", "a">>, <<"l", "b">>, <<"i", "c">> }

Prefixes == { <<>>, <<"l">>, <<"l", "a">>, <<"i">>, <<"m">> }

CharOrd == [c \in {"a", "b", "c", "i", "l", "m"} |->
              CASE c = "a" -> 1 [] c = "b" -> 2 [] c = "c" -> 3
                [] c = "i" -> 4 [] c = "l" -> 5 [] c = "m" -> 6]

\* the nil continuation token; the paginator treats the empty token alike
NoToken == <<>>

\* a nil error
Nil == [class |-> "nil", msg |-> <<>>]

\* the two not-found signals of the backend
ErrNotFound == [class |-> "absent",
                msg |-> <<"N", "o", "t", "F", "o", "u", "n", "d">>]
ErrNoSuchKey == [class |-> "absent",
                 msg |-> <<"N", "o", "S", "u", "c", "h", "K", "e", "y">>]
NotFoundSignals == {ErrNotFound, ErrNoSuchKey}

\* errors of other classes: the request was refused, or the key service of
\* an encrypted bucket does not know the key
ErrAccessDenied == [class |-> "other",
                    msg |-> <<"A", "c", "c", "e", "s", "s",
                              "D", "e", "n", "i", "e", "d">>]
ErrKMSNotFound == [class |-> "other",
                   msg |-> <<"K", "M", "S", ".", "N", "o", "t", "F", "o",
                             "u", "n", "d", "E", "x", "c", "e", "p", "t",
                             "i", "o", "n">>]
OtherErrors == {ErrAccessDenied, ErrKMSNotFound}

\* strings.Contains(s, sub)
Contains(s, sub) ==
    \E i \in 0..(Len(s) - Len(sub)) : SubSeq(s, i + 1, i + Len(sub)) = sub

\* the backend's prefix filter: plain prefix match
HasPrefix(k, p) == Len(p) <= Len(k) /\ SubSeq(k, 1, Len(p)) = p

\* the backend's listing order: keys in increasing binary order
RECURSIVE KeyLess(_, _)
KeyLess(a, b) ==
    IF a = <<>> THEN b # <<>>
    ELSE IF b = <<>> THEN FALSE
    ELSE IF Head(a) # Head(b) THEN CharOrd[Head(a)] < CharOrd[Head(b)]
    ELSE KeyLess(Tail(a), Tail(b))

RECURSIVE SortKeys(_)
SortKeys(S) ==
    IF S = {} THEN <<>>
    ELSE LET m == CHOOSE k \in S : \A o \in S \ {k} : KeyLess(k, o)
         IN <<m>> \o SortKeys(S \ {m})

Take(s, n) == SubSeq(s, 1, IF Len(s) < n THEN Len(s) ELSE n)

----------------------------------------------------------------------------
(* The storage backend, as the connector's requests see it *)

\* ListObjectsV2: the keys with the prefix that follow the token, in listing
\* order, at most PageSize of them, and the token of the next page when
\* keys remain
ListObjectsV2(b, prefix, token) ==
    LET rest == SortKeys({k \in b : HasPrefix(k, prefix)
                                    /\ (token = NoToken \/ KeyLess(token, k))})
        keys == Take(rest, PageSize)
        more == Len(rest) > PageSize
    IN [keys |-> keys, truncated |-> more,
        next |-> IF more THEN keys[Len(keys)] ELSE NoToken]

\* the errors a listing request can end with
ListErrors == OtherErrors

\* DeleteObject: what the backend can answer to the delete of key k. A
\* present key is removed or the request is refused; for an absent key the
\* backend answers success or one of its not-found signals.
DeleteAnswers(b, k) ==
    IF k \in b THEN {Nil} \union OtherErrors
    ELSE {Nil} \union NotFoundSignals \union OtherErrors

\* the bucket after the backend answered err to the delete of key k
AfterDelete(b, k, err) == IF err = Nil THEN b \ {k} ELSE b

----------------------------------------------------------------------------
(* DeleteFileWithPrefix *)

Running == wpc \notin {"idle", "done"}

Called == wpc # "idle"

Req(op, arg) ==
    [ev |-> "req", op |-> op, arg |-> arg, err |-> Nil, keys |-> <<>>,
     next |-> NoToken]

Ans(op, arg, err, keys, next) ==
    [ev |-> "ans", op |-> op, arg |-> arg, err |-> err, keys |-> keys,
     next |-> next]

\* a paginator that forgets the continuation token
HasMorePagesFirstOnly(first, token) == first

\* paginator.HasMorePages()
HasMorePages(first, token) == first \/ (token # NoToken /\ Len(token) # 0)

\* a paginator that drops the token of a truncated page
NextPageTokenDropped(out) == NoToken

\* the token the paginator keeps after a page
NextPageToken(out) == IF out.truncated THEN out.next ELSE NoToken

\* what the workflow does with the answer to a listing request: return the
\* error, or range over the page
ListStep(err, keys) ==
    IF err # Nil THEN [pc |-> "done", result |-> err]
    ELSE IF Len(keys) = 0 THEN [pc |-> "loop", result |-> Nil]
    ELSE [pc |-> "range", result |-> Nil]

\* a range loop that takes a not-found answer for a successful delete
DeleteStepTolerant(err, i, pg) ==
    IF err # Nil /\ err \notin NotFoundSignals
    THEN [pc |-> "done", result |-> err, idx |-> i]
    ELSE IF i < Len(pg) THEN [pc |-> "range", result |-> Nil, idx |-> i + 1]
    ELSE [pc |-> "loop", result |-> Nil, idx |-> i + 1]

\* a range loop that looks at the error only after the last key of the page
DeleteStepLastError(err, i, pg) ==
    IF i < Len(pg) THEN [pc |-> "range", result |-> Nil, idx |-> i + 1]
    ELSE IF err # Nil THEN [pc |-> "done", result |-> err, idx |-> i]
    ELSE [pc |-> "loop", result |-> Nil, idx |-> i + 1]

\* what the range loop does with the answer to the delete of pg[i]: return
\* the error, go on with the next key, or go back to the paginator
DeleteStep(err, i, pg) ==
    IF err # Nil THEN [pc |-> "done", result |-> err, idx |-> i]
    ELSE IF i < Len(pg) THEN [pc |-> "range", result |-> Nil, idx |-> i + 1]
    ELSE [pc |-> "loop", result |-> Nil, idx |-> i + 1]

\* a range loop that deletes the first key of the page at every position
RangeKeyFirst(pg, i) == pg[1]

\* a range loop that walks the page from its end
RangeKeyReversed(pg, i) == pg[Len(pg) + 1 - i]

\* the key the range loop deletes at position i of the page
RangeKey(pg, i) == pg[i]

W_Call(p) ==
    /\ wpc = "idle"
    /\ wpc' = "loop"
    /\ filePath' = p
    /\ firstPage' = TRUE
    /\ nextToken' = NoToken
    /\ bucket0' = bucket
    /\ UNCHANGED <<bucket, page, idx, inflight, wresult, wlog, wremoved,
                   interfered, cancelled, dvars, uvars, svars>>

W_List ==
    /\ wpc = "loop"
    /\ HasMorePages(firstPage, nextToken)
    /\ wpc' = "awaitList"
    /\ inflight' = inflight \union {Req("list", nextToken)}
    /\ wlog' = Append(wlog, Req("list", nextToken))
    /\ UNCHANGED <<bucket, filePath, firstPage, nextToken, page, idx, wresult,
                   bucket0, wremoved, interfered, cancelled, dvars, uvars, svars>>

W_ListAnswer ==
    /\ wpc = "awaitList"
    /\ \E err \in {Nil} \union ListErrors :
         LET out  == IF err = Nil
                     THEN ListObjectsV2(bucket, filePath, nextToken)
                     ELSE [keys |-> <<>>, truncated |-> FALSE,
                           next |-> NoToken]
             step == ListStep(err, out.keys)
         IN /\ wlog' = Append(wlog, Ans("list", nextToken, err, out.keys,
                                        out.next))
            /\ inflight' = inflight \ {Req("list", nextToken)}
            /\ firstPage' = FALSE
            /\ nextToken' = IF err = Nil THEN NextPageToken(out) ELSE nextToken
            /\ page' = IF err = Nil THEN out.keys ELSE page
            /\ idx' = 1
            /\ wpc' = step.pc
            /\ wresult' = step.result
    /\ UNCHANGED <<bucket, filePath, bucket0, wremoved, interfered, cancelled,
                   dvars, uvars, svars>>

W_Delete ==
    /\ wpc = "range"
    /\ wpc' = "awaitDelete"
    /\ inflight' = inflight \union {Req("delete", RangeKey(page, idx))}
    /\ wlog' = Append(wlog, Req("delete", RangeKey(page, idx)))
    /\ UNCHANGED <<bucket, filePath, firstPage, nextToken, page, idx, wresult,
                   bucket0, wremoved, interfered, cancelled, dvars, uvars, svars>>

W_DeleteAnswer ==
    /\ wpc = "awaitDelete"
    /\ LET k == RangeKey(page, idx)
       IN \E err \in DeleteAnswers(bucket, k) :
            LET step == DeleteStep(err, idx, page)
            IN /\ bucket' = AfterDelete(bucket, k, err)
               /\ wremoved' = wremoved \union (bucket \ bucket')
               /\ wlog' = Append(wlog, Ans("delete", k, err, <<>>, NoToken))
               /\ inflight' = inflight \ {Req("delete", k)}
               /\ idx' = step.idx
               /\ wpc' = step.pc
               /\ wresult' = step.result
    /\ UNCHANGED <<filePath, firstPage, nextToken, page, bucket0, interfered,
                   cancelled, dvars, uvars, svars>>

W_Return ==
    /\ wpc = "loop"
    /\ ~HasMorePages(firstPage, nextToken)
    /\ wpc' = "done"
    /\ wresult' = Nil
    /\ UNCHANGED <<bucket, filePath, firstPage, nextToken, page, idx, inflight,
                   wlog, bucket0, wremoved, interfered, cancelled, dvars,
                   uvars, svars>>

\* the caller gives the running workflow up; the workflow is called without
\* a context of the caller's, so nothing of the invocation changes
Cancel ==
    /\ Running
    /\ ~cancelled
    /\ cancelled' = TRUE
    /\ UNCHANGED <<bucket, wpc, filePath, firstPage, nextToken, page, idx,
                   inflight, wresult, wlog, bucket0, wremoved, interfered, dvars,
                   uvars, svars>>

----------------------------------------------------------------------------
(* DeleteFile *)

\* a DeleteFile that returns every error of the backend
DeleteFileResultStrict(err) == err

\* the error DeleteFile returns for the backend's answer err
DeleteFileResult(err) ==
    IF err # Nil
    THEN IF /\ ~Contains(err.msg, ErrNotFound.msg)
            /\ ~Contains(err.msg, ErrNoSuchKey.msg)
         THEN err
         ELSE Nil
    ELSE Nil

D_Call(k) ==
    /\ dpc = "idle"
    /\ dpc' = "awaitDelete"
    /\ dkey' = k
    /\ dreqs' = dreqs + 1
    /\ UNCHANGED <<bucket, wvars, interfered, dresp, dabsent, dresult, uvars, svars>>

D_Answer ==
    /\ dpc = "awaitDelete"
    /\ \E err \in DeleteAnswers(bucket, dkey) :
         /\ bucket' = AfterDelete(bucket, dkey, err)
         /\ dresp' = err
         /\ dresult' = DeleteFileResult(err)
    /\ dabsent' = (dkey \notin bucket)
    /\ dpc' = "done"
    /\ interfered' = (interfered \/ (Called /\ bucket' # bucket))
    /\ UNCHANGED <<wvars, dkey, dreqs, uvars, svars>>

----------------------------------------------------------------------------
(* WriteAsFile *)

\* PutObject stores the object, or the request is refused
WriteAsFile(k) ==
    /\ upc = "idle"
    /\ upc' = "done"
    /\ ukey' = k
    /\ \E err \in {Nil, ErrAccessDenied} :
         /\ uresult' = err
         /\ bucket' = IF err = Nil THEN bucket \union {k} ELSE bucket
    /\ interfered' = (interfered \/ (Called /\ bucket' # bucket))
    /\ UNCHANGED <<wvars, dvars, svars>>

----------------------------------------------------------------------------
(* SaveFile *)

\* characters of the base64 alphabet the requests are written in, and the
\* padding character
B64Chars == {"Q", "/"}
PadChar == "="

\* the 6-bit value of a character of the standard alphabet
B64Val(c) == CASE c = "Q" -> 16 [] c = "/" -> 63

\* the bytes of one quantum of four characters without padding
Quantum3(q) ==
    LET a == B64Val(q[1])
        b == B64Val(q[2])
        c == B64Val(q[3])
        d == B64Val(q[4])
    IN << a * 4 + (b \div 16), (b % 16) * 16 + (c \div 4), (c % 4) * 64 + d >>

\* base64.StdEncoding.DecodeString: quanta of four characters, padding only
\* in the last quantum; the bytes, or a corrupt input error
RECURSIVE DecodeString(_)
DecodeString(s) ==
    IF s = <<>> THEN [ok |-> TRUE, bytes |-> <<>>]
    ELSE IF Len(s) < 4 THEN [ok |-> FALSE, bytes |-> <<>>]
    ELSE LET q == SubSeq(s, 1, 4)
             rest == SubSeq(s, 5, Len(s))
         IN IF \A i \in 1..4 : q[i] # PadChar
            THEN LET r == DecodeString(rest)
                 IN IF r.ok
                    THEN [ok |-> TRUE, bytes |-> Quantum3(q) \o r.bytes]
                    ELSE [ok |-> FALSE, bytes |-> <<>>]
            ELSE IF /\ rest = <<>>
                    /\ q[1] # PadChar /\ q[2] # PadChar /\ q[3] # PadChar
                    /\ q[4] = PadChar
            THEN [ok |-> TRUE,
                  bytes |-> SubSeq(Quantum3(<<q[1], q[2], q[3], "Q">>), 1, 2)]
            ELSE IF /\ rest = <<>>
                    /\ q[1] # PadChar /\ q[2] # PadChar
                    /\ q[3] = PadChar /\ q[4] = PadChar
            THEN [ok |-> TRUE,
                  bytes |-> SubSeq(Quantum3(<<q[1], q[2], "Q", "Q">>), 1, 1)]
            ELSE [ok |-> FALSE, bytes |-> <<>>]

\* the error of a corrupt base64 input
ErrCorruptInput == [class |-> "other",
                    msg |-> <<"i", "l", "l", "e", "g", "a", "l">>]

\* the content length the streaming SaveFile computes from len(RawData)
ApproxContentLength(rawLength) ==
    LET contentLen == (rawLength \div 4) * 3
    IN IF rawLength % 4 # 0
       THEN contentLen + (rawLength % 4) - 1
       ELSE contentLen

\* the object key of the upload: Category/FileName, a fresh name when the
\* request names none
UploadKey(req) ==
    req.Category \o (IF req.FileName # <<>> THEN req.FileName ELSE <<"u">>)

RECURSIVE RawStrings(_)
RawStrings(n) ==
    IF n = 0 THEN {<<>>}
    ELSE LET shorter == RawStrings(n - 1)
         IN shorter \union
            {Append(t, c) : t \in {x \in shorter : Len(x) = n - 1},
                            c \in B64Chars \union {PadChar}}

\* the RawData of the requests: every string of at most MaxRawLen characters
RawInputs == RawStrings(MaxRawLen)

S_Call ==
    /\ spc = "idle"
    /\ spc' = "called"
    /\ \E v \in {"stream", "decode"}, name \in {<<>>, <<"c">>},
          raw \in RawInputs :
         /\ svariant' = v
         /\ sreq' = [FileName |-> name, Category |-> <<"i">>,
                     RawData |-> raw]
    /\ UNCHANGED <<bucket, wvars, interfered, dvars, uvars, contentLength,
                   body, sresult>>

\* the first revision: the body is a decoder over RawData, the length comes
\* from the formula; PutObject reads the body to its end
S_SaveStream ==
    /\ spc = "called"
    /\ svariant = "stream"
    /\ spc' = "done"
    /\ contentLength' = ApproxContentLength(Len(sreq.RawData))
    /\ LET dec == DecodeString(sreq.RawData)
       IN /\ body' = dec.bytes
          /\ \E err \in (IF dec.ok THEN {Nil, ErrAccessDenied}
                         ELSE {ErrCorruptInput}) :
               /\ sresult' = err
               /\ bucket' = IF err = Nil
                            THEN bucket \union {UploadKey(sreq)}
                            ELSE bucket
    /\ interfered' = (interfered \/ (Called /\ bucket' # bucket))
    /\ UNCHANGED <<wvars, dvars, uvars, svariant, sreq>>

\* the later revisions: decode first, return a decoding error, send the
\* decoded bytes with their length
S_SaveDecoded ==
    /\ spc = "called"
    /\ svariant = "decode"
    /\ spc' = "done"
    /\ LET dec == DecodeString(sreq.RawData)
       IN IF ~dec.ok
          THEN /\ sresult' = ErrCorruptInput
               /\ UNCHANGED <<bucket, contentLength, body>>
          ELSE /\ body' = dec.bytes
               /\ contentLength' = Len(dec.bytes)
               /\ \E err \in {Nil, ErrAccessDenied} :
                    /\ sresult' = err
                    /\ bucket' = IF err = Nil
                                 THEN bucket \union {UploadKey(sreq)}
                                 ELSE bucket
    /\ interfered' = (interfered \/ (Called /\ bucket' # bucket))
    /\ UNCHANGED <<wvars, dvars, uvars, svariant, sreq>>

----------------------------------------------------------------------------

Init ==
    /\ bucket \in SUBSET Keys
    /\ wpc = "idle"
    /\ filePath = <<>>
    /\ firstPage = TRUE
    /\ nextToken = NoToken
    /\ page = <<>>
    /\ idx = 1
    /\ inflight = {}
    /\ wresult = Nil
    /\ wlog = <<>>
    /\ bucket0 = bucket
    /\ wremoved = {}
    /\ interfered = FALSE
    /\ cancelled = FALSE
    /\ dpc = "idle"
    /\ dkey = <<>>
    /\ dresp = Nil
    /\ dabsent = FALSE
    /\ dreqs = 0
    /\ dresult = Nil
    /\ upc = "idle"
    /\ ukey = <<>>
    /\ uresult = Nil
    /\ spc = "idle"
    /\ svariant = "stream"
    /\ sreq = [FileName |-> <<>>, Category |-> <<>>, RawData |-> <<>>]
    /\ contentLength = 0
    /\ body = <<>>
    /\ sresult = Nil

WNext == W_List \/ W_ListAnswer \/ W_Delete \/ W_DeleteAnswer \/ W_Return

Next ==
    \/ \E p \in Prefixes : W_Call(p)
    \/ W_List
    \/ W_ListAnswer
    \/ W_Delete
    \/ W_DeleteAnswer
    \/ W_Return
    \/ Cancel
    \/ \E k \in Keys : D_Call(k)
    \/ D_Answer
    \/ \E k \in Keys : WriteAsFile(k)

Spec == Init /\ [][Next]_vars

\* one invocation of SaveFile, of either revision
SaveNext ==
    \/ S_Call
    \/ S_SaveStream
    \/ S_SaveDecoded

\* SaveFile on an empty bucket
SaveInit == Init /\ bucket = {}

SaveSpec == SaveInit /\ [][SaveNext]_vars

\* one invocation of DeleteFileWithPrefix, its caller, and one concurrent
\* upload, which can add a page to the listing
LiveNext ==
    \/ \E p \in Prefixes : W_Call(p)
    \/ W_List
    \/ W_ListAnswer
    \/ W_Delete
    \/ W_DeleteAnswer
    \/ W_Return
    \/ Cancel
    \/ \E k \in Keys : WriteAsFile(k)

\* the backend answers every request and the calling goroutine keeps running
LiveSpec == Init /\ [][LiveNext]_vars /\ WF_vars(WNext)

----------------------------------------------------------------------------
(* What the history of an invocation says *)

IsAns(e) == e.ev = "ans"
IsReq(e) == e.ev = "req"
IsListAns(e) == e.ev = "ans" /\ e.op = "list"
IsListReq(e) == e.ev = "req" /\ e.op = "list"
IsDeleteReq(e) == e.ev = "req" /\ e.op = "delete"

RECURSIVE Flatten(_)
Flatten(ss) == IF ss = <<>> THEN <<>> ELSE Head(ss).keys \o Flatten(Tail(ss))

\* the keys the listing pages of the invocation returned, in order
ListedKeys == Flatten(SelectSeq(wlog, IsListAns))

\* the keys of the delete requests the invocation issued, in order
DeleteReqKeys ==
    LET reqs == SelectSeq(wlog, IsDeleteReq)
    IN [i \in 1..Len(reqs) |-> reqs[i].arg]

\* positions of the answers that carry an error
ErrorAt == {i \in 1..Len(wlog) : IsAns(wlog[i]) /\ wlog[i].err # Nil}

\* keys whose delete request succeeded before the first failure
DeletedBeforeFailure ==
    {wlog[i].arg : i \in {j \in 1..Len(wlog) :
                            /\ IsAns(wlog[j])
                            /\ wlog[j].op = "delete"
                            /\ wlog[j].err = Nil
                            /\ \A e \in ErrorAt : j < e}}

IsPrefixOf(s, t) == Len(s) <= Len(t) /\ SubSeq(t, 1, Len(s)) = s

----------------------------------------------------------------------------
(* Claims *)

\* C1: when DeleteFileWithPrefix(P) has returned success and no other actor
\* changed the bucket since the call, no key starting with P is in the
\* bucket and every key not starting with P that was there before still is.
C1_PrefixDeleted ==
    (wpc = "done" /\ wresult = Nil /\ ~interfered) =>
        /\ \A k \in bucket : ~HasPrefix(k, filePath)
        /\ \A k \in bucket0 : ~HasPrefix(k, filePath) => k \in bucket

\* C1 witness: a successful undisturbed run over more than one page that
\* removed three keys and left a key outside the prefix
C1_Witness ==
    /\ wpc = "done" /\ wresult = Nil /\ ~interfered
    /\ Cardinality(bucket0 \ bucket) >= 3
    /\ bucket # {}
    /\ Len(SelectSeq(wlog, IsListAns)) >= 2

\* C2: DeleteFile of a key that is absent, answered by the backend with a
\* not-found signal (or with plain success), returns success; DeleteFile
\* issues exactly one delete request.
C2_AbsentKeySucceeds ==
    (dpc = "done") =>
        /\ dreqs = 1
        /\ (dabsent /\ dresp \in NotFoundSignals \union {Nil}) => dresult = Nil

\* C2 witness: an absent key, the backend answered NoSuchKey, success
C2_Witness ==
    /\ dpc = "done" /\ dabsent /\ dresp = ErrNoSuchKey /\ dresult = Nil
    /\ dreqs = 1

\* C3: for every error the backend answers to DeleteFile's request,
\* DeleteFile returns success exactly when the error is one of the two
\* not-found signals, and returns every other error unchanged.
C3_OnlyNotFoundSwallowed ==
    (dpc = "done" /\ dresp # Nil) =>
        /\ (dresult = Nil) <=> (dresp \in NotFoundSignals)
        /\ (dresp \notin NotFoundSignals) => (dresult = dresp)

\* C4: fail-fast: an answer carrying an error is the last entry of the
\* invocation's history, and the invocation has returned exactly that error.
C4_FailFast ==
    \A i \in ErrorAt :
        /\ i = Len(wlog)
        /\ wpc = "done"
        /\ wresult = wlog[i].err

\* C4 witness: a delete failed with keys of the page and a later page left
C4_Witness ==
    /\ wpc = "done" /\ wresult = ErrAccessDenied
    /\ wlog[Len(wlog)].op = "delete"
    /\ idx < Len(page)
    /\ nextToken # NoToken
    /\ DeletedBeforeFailure = {}

\* C5: when DeleteFileWithPrefix has returned an error, the keys its
\* requests removed are keys whose delete succeeded before the failure; when
\* no other actor changed the bucket, the bucket is the bucket of the call
\* without exactly those keys, so the other matching keys are still there.
C5_PartialEffect ==
    (wpc = "done" /\ wresult # Nil) =>
        /\ wremoved \subseteq DeletedBeforeFailure
        /\ ~interfered =>
             /\ wremoved = DeletedBeforeFailure
             /\ bucket = bucket0 \ DeletedBeforeFailure
             /\ \A k \in bucket0 \ DeletedBeforeFailure : k \in bucket

\* C5 witness: the listing of page 2 failed after page 1 was deleted, and
\* a matching key is left
C5_Witness ==
    /\ wpc = "done" /\ wresult # Nil /\ ~interfered
    /\ wlog[Len(wlog)].op = "list"
    /\ Cardinality(DeletedBeforeFailure) = PageSize
    /\ \E k \in bucket : HasPrefix(k, filePath)

\* C6: in DeleteFileWithPrefix a per-key delete the backend answers with a
\* not-found signal counts as success: the workflow does not return it.
C6_NotFoundDoesNotAbort ==
    ~(wpc = "done" /\ wresult \in NotFoundSignals)

\* C7: once the caller has signalled cancellation, DeleteFileWithPrefix
\* issues no listing request for a later page.
C7_NoListingAfterCancel ==
    [][~(cancelled /\ ~firstPage /\ wpc = "loop" /\ wpc' = "awaitList")]_vars

\* C8: under any interleaving, the delete requests of an invocation are,
\* in order, the keys its listing pages returned, one request per returned
\* key until it stops; every such key starts with the prefix; when the
\* listing returned no key the invocation issues no delete request and, the
\* listing having succeeded, returns success.
C8_DeletesListedKeys ==
    /\ IsPrefixOf(DeleteReqKeys, ListedKeys)
    /\ \A i, j \in 1..Len(ListedKeys) :
         ListedKeys[i] = ListedKeys[j] => i = j
    /\ \A i \in 1..Len(ListedKeys) : HasPrefix(ListedKeys[i], filePath)
    /\ (wpc = "done" /\ wresult = Nil) => DeleteReqKeys = ListedKeys
    /\ (wpc = "done" /\ ListedKeys = <<>> /\ ErrorAt = {}) =>
         (wresult = Nil /\ DeleteReqKeys = <<>>)

\* C8 witness: another actor stored a key during the run, a later page
\* returned it and the invocation deleted it
C8_Witness ==
    /\ wpc = "done" /\ wresult = Nil /\ interfered
    /\ \E i \in 1..Len(DeleteReqKeys) : DeleteReqKeys[i] \notin bucket0
    /\ Len(DeleteReqKeys) >= 3

\* C9: at most one request of an invocation is outstanding; requests and
\* answers alternate; the keys of a page are deleted in the order of the
\* listing, and the next listing request follows the answer to the delete
\* of the last key of the page.
C9_Sequential ==
    /\ Cardinality(inflight) <= 1
    /\ \A i \in 1..Len(wlog) :
         /\ (i % 2 = 1) => IsReq(wlog[i])
         /\ (i % 2 = 0) =>
              /\ IsAns(wlog[i])
              /\ wlog[i].op = wlog[i - 1].op
              /\ wlog[i].arg = wlog[i - 1].arg
    /\ \A i \in 1..Len(wlog) :
         (IsListAns(wlog[i]) /\ wlog[i].err = Nil) =>
            LET ks == wlog[i].keys
            IN /\ \A j \in 1..Len(ks) :
                    (i + 2 * j - 1 <= Len(wlog)) =>
                        wlog[i + 2 * j - 1] = Req("delete", ks[j])
               /\ (i + 2 * Len(ks) + 1 <= Len(wlog)) =>
                        IsListReq(wlog[i + 2 * Len(ks) + 1])
    /\ \A i \in 1..Len(wlog) :
         IsListReq(wlog[i]) =>
            \/ i = 1
            \/ \E p \in 1..(i - 1) :
                 /\ IsListAns(wlog[p])
                 /\ i = p + 2 * Len(wlog[p].keys) + 1

\* C9 witness: two full pages were listed and deleted
C9_Witness ==
    /\ wpc = "done"
    /\ Len(wlog) >= 4 * PageSize + 4
    /\ inflight = {}

\* the listing requests of the invocation and their answers
ListReqs == SelectSeq(wlog, IsListReq)
ListAnss == SelectSeq(wlog, IsListAns)

\* one listing request per page: the first without a token, each later one
\* with the token the preceding page carried; a successful return follows a
\* page that carried no token
ListingChain ==
    /\ \A i \in 1..Len(ListReqs) :
         IF i = 1 THEN ListReqs[i].arg = NoToken
         ELSE /\ ListAnss[i - 1].next # NoToken
              /\ ListReqs[i].arg = ListAnss[i - 1].next
    /\ (wpc = "done" /\ ErrorAt = {}) =>
         /\ wresult = Nil
         /\ Len(ListReqs) = Len(ListAnss)
         /\ Len(ListAnss) >= 1
         /\ ListAnss[Len(ListAnss)].next = NoToken

\* C10: an invocation whose requests are all answered returns; when no
\* request failed it returns success after one listing request per page,
\* chained by the continuation tokens, the last page carrying no token.
C10_Termination ==
    /\ []ListingChain
    /\ (Called ~> (wpc = "done"))

\* C10 witness: a run without errors over two pages has returned success
C10_Witness ==
    /\ wpc = "done" /\ wresult = Nil /\ ErrorAt = {}
    /\ Len(ListReqs) >= 2
    /\ ListReqs[2].arg # NoToken

\* C11: the streaming SaveFile sends, for every valid standard-base64
\* RawData, a ContentLength equal to the number of bytes the decoding of
\* RawData yields, as the later revisions do.
C11_ContentLengthIsDecodedLength ==
    (spc = "done" /\ DecodeString(sreq.RawData).ok) =>
        /\ contentLength = Len(DecodeString(sreq.RawData).bytes)
        /\ contentLength = Len(body)

============================================================================
